---- MODULE Spec2Model ----
(***************************************************************************)
(* Model of core/src/simplex.rs: the process-wide permutation table cache  *)
(* (StaticPermutationTable, get_permutation_table), the gradient hashes    *)
(* (hash1d, hash2d, hash3d), fast_floor and the lattice / simplex-corner   *)
(* selection of noise1d, noise2d and noise3d.                              *)
(*                                                                         *)
(* Four specifications:                                                    *)
(*   Spec      several threads calling get_permutation_table and indexing  *)
(*             the returned table, every interleaving of the steps         *)
(*   SpecSeq   the same steps taken by one thread only                     *)
(*   SpecSame  as Spec, the calls in progress all asking for one seed      *)
(*   SpecNoise the pure lattice arithmetic of the noise evaluators         *)
(***************************************************************************)
EXTENDS Integers, Sequences, FiniteSets, TLC

(***************************************************************************)
(* Bounds of the model.                                                    *)
(***************************************************************************)
\* number of threads of Spec
NThreads == 2
\* get_permutation_table calls made in one run, over all threads
MaxCalls == 3
\* seeds are 0 .. NSeeds-1
NSeeds == 2
\* PERMUTATION_TABLE_SIZE of constants.rs, scaled down: the model is
\* parametric in the size
PERMUTATION_TABLE_SIZE == 3

\* an f64 is modelled as a multiple of 1/Den: the integer v stands for v/Den
Den == 2
\* i64 is modelled IntBits wide (sign included) and usize IntBits wide
IntBits == 4

Threads == 1 .. NThreads
Seeds == 0 .. (NSeeds - 1)
\* Option::None of the seed and table fields
None == <<>>
\* the table lookups of one hash: hash1d 1, hash2d 2, hash3d 3
Dims == {1, 2, 3}

(***************************************************************************)
(* ptable::build_permutation_table(seed, size, extended): a permutation of *)
(* 0 .. size-1 fixed by the seed, repeated to length 2*size when extended. *)
(* Here the rotation by the seed: seeds below size get distinct tables.    *)
(* Sequences are 1-based: Rust's perm[i] is perm[i + 1] here.              *)
(***************************************************************************)
build_permutation_table(seed, size, extended) ==
    [n \in 1 .. (IF extended THEN 2 * size ELSE size) |->
        ((n - 1) + seed) % size]

VARIABLES
    seed,       \* PERMUTATION_TABLE.seed : None or Some(seed)
    table,      \* PERMUTATION_TABLE.table : None or Some(vector)
    sync,       \* PERMUTATION_TABLE.sync : the state of the Once
    pc,         \* pc[t] : the step thread t is at
    arg,        \* arg[t] : the seed argument of t's current call
    left,       \* left[t] : table lookups t's current hash still makes
    ncalls,     \* calls started so far
    first,      \* history: None, or Some(the seed of the first call ever)
    epoch,      \* history: the calls and builds since all threads were last idle
    nz          \* state of SpecNoise

vars == <<seed, table, sync, pc, arg, left, ncalls, first, epoch, nz>>

\* Option::Some(x); Option::None is the empty sequence
Some(x) == <<x>>

\* a vector on the heap: its contents, and whether its buffer is still allocated
Vec(v) == [val |-> v, live |-> TRUE]

\* static mut PERMUTATION_TABLE = { table: None, seed: None, sync: Once::new() }
InitCache ==
    /\ seed = None
    /\ table = None
    /\ sync = "INCOMPLETE"
    /\ pc = [t \in Threads |-> "idle"]
    /\ arg = [t \in Threads |-> 0]
    /\ left = [t \in Threads |-> 0]
    /\ ncalls = 0
    /\ first = None
    /\ epoch = [start |-> None, seeds |-> {}, builds |-> 0, resets |-> 0]

\* mutant of SeedChanged: the comparison inverted
SeedChanged_Inverted(cached, s) == cached # None /\ cached[1] = s

\* PERMUTATION_TABLE.seed.is_some_and(|old_seed| old_seed != seed)
SeedChanged(cached, s) == cached # None /\ cached[1] # s

\* a hash function is entered with a seed: hash1d / hash2d / hash3d call
\* get_permutation_table(seed), which first compares the cached seed, and
\* then index the table d times
CallAndCheckSeed(t, s, d) ==
    /\ pc[t] = "idle"
    /\ ncalls < MaxCalls
    /\ pc' = [pc EXCEPT ![t] = IF SeedChanged(seed, s) THEN "reset" ELSE "call_once"]
    /\ arg' = [arg EXCEPT ![t] = s]
    /\ left' = [left EXCEPT ![t] = d]
    /\ ncalls' = ncalls + 1
    /\ first' = IF first = None THEN Some(s) ELSE first
    /\ epoch' = IF \A u \in Threads : pc[u] = "idle"
                THEN [start |-> seed, seeds |-> {s}, builds |-> 0, resets |-> 0]
                ELSE [epoch EXCEPT !.seeds = @ \cup {s}]
    /\ UNCHANGED <<seed, table, sync, nz>>

\* PERMUTATION_TABLE.sync = Once::new()
ResetGuard(t) ==
    /\ pc[t] = "reset"
    /\ sync' = "INCOMPLETE"
    /\ pc' = [pc EXCEPT ![t] = "call_once"]
    /\ epoch' = [epoch EXCEPT !.resets = @ + 1]
    /\ UNCHANGED <<seed, table, arg, left, ncalls, first, nz>>

\* mutant of CallOnce: the closure is entered without claiming the guard
CallOnce_NoClaim(t) ==
    /\ pc[t] = "call_once"
    /\ pc' = [pc EXCEPT ![t] = IF sync = "COMPLETE" THEN "read" ELSE "write_seed"]
    /\ UNCHANGED <<seed, table, sync, arg, left, ncalls, first, epoch, nz>>

\* Once::call_once: COMPLETE returns at once, INCOMPLETE is claimed (RUNNING)
\* and the closure runs, RUNNING blocks the caller until the state changes
CallOnce(t) ==
    /\ pc[t] = "call_once"
    /\ sync # "RUNNING"
    /\ IF sync = "COMPLETE"
       THEN /\ pc' = [pc EXCEPT ![t] = "read"]
            /\ UNCHANGED sync
       ELSE /\ sync' = "RUNNING"
            /\ pc' = [pc EXCEPT ![t] = "write_seed"]
    /\ UNCHANGED <<seed, table, arg, left, ncalls, first, epoch, nz>>

\* closure: PERMUTATION_TABLE.seed = Some(seed)
WriteSeed(t) ==
    /\ pc[t] = "write_seed"
    /\ seed' = Some(arg[t])
    /\ pc' = [pc EXCEPT ![t] = "build"]
    /\ UNCHANGED <<table, sync, arg, left, ncalls, first, epoch, nz>>

\* closure: build_permutation_table(seed, PERMUTATION_TABLE_SIZE, true) is
\* evaluated, and the assignment to PERMUTATION_TABLE.table first drops the old
\* value in place (its buffer is freed, the field still holds the stale vector)
BuildAndDropOld(t) ==
    /\ pc[t] = "build"
    /\ epoch' = [epoch EXCEPT !.builds = @ + 1]
    /\ table' = IF table = None THEN None ELSE Some([table[1] EXCEPT !.live = FALSE])
    /\ pc' = [pc EXCEPT ![t] = "write_table"]
    /\ UNCHANGED <<seed, sync, arg, left, ncalls, first, nz>>

\* closure: ... and then moves Some(new table) into the field
WriteTable(t) ==
    /\ pc[t] = "write_table"
    /\ table' = Some(Vec(build_permutation_table(arg[t], PERMUTATION_TABLE_SIZE, TRUE)))
    /\ pc' = [pc EXCEPT ![t] = "complete"]
    /\ UNCHANGED <<seed, sync, arg, left, ncalls, first, epoch, nz>>

\* call_once: the closure returned, the completion guard stores COMPLETE
Complete(t) ==
    /\ pc[t] = "complete"
    /\ sync' = "COMPLETE"
    /\ pc' = [pc EXCEPT ![t] = "read"]
    /\ UNCHANGED <<seed, table, arg, left, ncalls, first, epoch, nz>>

\* PERMUTATION_TABLE.table.as_ref().unwrap(): panics on None, else returns a
\* reference to the vector inside the static
ReadTable(t) ==
    /\ pc[t] = "read"
    /\ pc' = [pc EXCEPT ![t] = IF table = None THEN "panicked" ELSE "lookup"]
    /\ UNCHANGED <<seed, table, sync, arg, left, ncalls, first, epoch, nz>>

\* whether a perm.get_unchecked(..) of a call with seed s that finds tbl in the
\* static reads the built, still allocated table of s
ReadsOwnTable(tbl, s) ==
    /\ tbl # None
    /\ tbl[1].live
    /\ tbl[1].val = build_permutation_table(s, PERMUTATION_TABLE_SIZE, TRUE)

\* *perm.get_unchecked(..): one table lookup through the reference; after the
\* last one the hash returns
Lookup(t) ==
    /\ pc[t] = "lookup"
    /\ left' = [left EXCEPT ![t] = @ - 1]
    /\ IF left[t] = 1
       THEN /\ pc' = [pc EXCEPT ![t] = "idle"]
            /\ arg' = [arg EXCEPT ![t] = 0]
       ELSE UNCHANGED <<pc, arg>>
    /\ UNCHANGED <<seed, table, sync, ncalls, first, epoch, nz>>

\* the steps of a call once it is entered
Work(t) ==
    \/ ResetGuard(t)
    \/ CallOnce(t)
    \/ WriteSeed(t)
    \/ BuildAndDropOld(t)
    \/ WriteTable(t)
    \/ Complete(t)
    \/ ReadTable(t)
    \/ Lookup(t)

Step(t) ==
    \/ \E s \in Seeds, d \in Dims : CallAndCheckSeed(t, s, d)
    \/ Work(t)

\* a call entered with the seed of every call that is in progress
CallSameSeed(t, s, d) ==
    /\ \A u \in Threads : pc[u] # "idle" => arg[u] = s
    /\ CallAndCheckSeed(t, s, d)

(***************************************************************************)
(* The arithmetic of the noise evaluators. f64 values are integers in      *)
(* units of 1/Den; i64 and usize keep their saturating casts at the        *)
(* modelled width.                                                         *)
(***************************************************************************)
RECURSIVE Pow2(_)
Pow2(n) == IF n = 0 THEN 1 ELSE 2 * Pow2(n - 1)

I64_MAX == Pow2(IntBits - 1) - 1
I64_MIN == -Pow2(IntBits - 1)
USIZE_MAX == Pow2(IntBits) - 1

\* the integer part of the f64 v, rounded toward zero
Trunc(v) == IF v >= 0 THEN v \div Den ELSE -((-v) \div Den)

\* `v as i64`: truncation toward zero, saturating at the ends of i64
AsI64(v) ==
    IF Trunc(v) > I64_MAX THEN I64_MAX
    ELSE IF Trunc(v) < I64_MIN THEN I64_MIN
    ELSE Trunc(v)

\* `n as f64` of an i64: exact, but for i64::MAX, which rounds up to 2^63
I64AsF64(n) == IF n = I64_MAX THEN (I64_MAX + 1) * Den ELSE n * Den

\* `v as usize`: truncation toward zero, saturating at 0 and usize::MAX
AsUsize(v) ==
    IF Trunc(v) > USIZE_MAX THEN USIZE_MAX
    ELSE IF Trunc(v) < 0 THEN 0
    ELSE Trunc(v)

\* mutant of fast_floor: truncation toward zero only
fast_floor_Truncating(x) == I64AsF64(AsI64(x))

\* fn fast_floor(x: f64) -> f64
fast_floor(x) ==
    LET x_int == AsI64(x)
    IN  I64AsF64(x_int) - (IF x < I64AsF64(x_int) THEN Den ELSE 0)

\* mutant of LatticeIndex: the modulo reduction left out
LatticeIndex_NoMod(c) == AsUsize(c)

\* `is as usize % PERMUTATION_TABLE_SIZE` of a floored coordinate
LatticeIndex(c) == AsUsize(c) % PERMUTATION_TABLE_SIZE

\* constants.rs: v * SKEW_FACTOR_2D ((sqrt 3 - 1)/2), v * UNSKEW_FACTOR_2D
\* ((3 - sqrt 3)/6), v * SKEW_FACTOR_3D (1/3), v * UNSKEW_FACTOR_3D (1/6),
\* each rounded to the grid
Skew2d(v) == (v * 366) \div 1000
Unskew2d(v) == (v * 211) \div 1000
Skew3d(v) == v \div 3
Unskew3d(v) == v \div 6

\* constants.rs: SIMPLEX_TRAVERSAL_LUT_3D, the six traversal orders keyed by
\* the comparison code; an entry is <<i1, j1, k1, i2, j2, k2>>
SIMPLEX_TRAVERSAL_LUT_3D ==
    (0 :> <<0, 0, 1, 0, 1, 1>>) @@ (2 :> <<0, 1, 0, 0, 1, 1>>) @@
    (3 :> <<0, 1, 0, 1, 1, 0>>) @@ (4 :> <<0, 0, 1, 1, 0, 1>>) @@
    (5 :> <<1, 0, 0, 1, 0, 1>>) @@ (7 :> <<1, 0, 0, 1, 1, 0>>)

\* *perm.get_unchecked(i): no bounds check, past the end it reads whatever
\* is there (junk)
get_unchecked(p, i, junk) == IF i < Len(p) THEN p[i + 1] ELSE junk

\* unsafe fn hash1d / hash2d / hash3d, on the table get_permutation_table returns
hash1d(p, i, junk) == get_unchecked(p, i, junk)
hash2d(p, i, j, junk) == get_unchecked(p, i + get_unchecked(p, j, junk), junk)
hash3d(p, i, j, k, junk) ==
    get_unchecked(p, i + get_unchecked(p, j + get_unchecked(p, k, junk), junk), junk)

\* the indices the hashes pass to get_unchecked
hash1dIndices(p, i, junk) == {i}
hash2dIndices(p, i, j, junk) == {j, i + get_unchecked(p, j, junk)}
hash3dIndices(p, i, j, k, junk) ==
    {k, j + get_unchecked(p, k, junk),
     i + get_unchecked(p, j + get_unchecked(p, k, junk), junk)}

\* mutant of MiddleCorner2d: ties go to (0,1)
MiddleCorner2d_LessEq(x0, y0) == IF x0 <= y0 THEN <<0, 1>> ELSE <<1, 0>>

\* noise2d: the middle simplex corner <<i1, j1>>
MiddleCorner2d(x0, y0) == IF x0 < y0 THEN <<0, 1>> ELSE <<1, 0>>

\* mutant of SimplexIdx3d: the last comparison is not strict
SimplexIdx3d_GreaterEq(x0, y0, z0) ==
    (IF x0 > y0 THEN 4 ELSE 0) + (IF y0 > z0 THEN 2 ELSE 0) + (IF x0 >= z0 THEN 1 ELSE 0)

\* noise3d: the comparison code that indexes SIMPLEX_TRAVERSAL_LUT_3D
SimplexIdx3d(x0, y0, z0) ==
    (IF x0 > y0 THEN 4 ELSE 0) + (IF y0 > z0 THEN 2 ELSE 0) + (IF x0 > z0 THEN 1 ELSE 0)

\* pub fn noise1d: what it computes up to the gradient indices
noise1d(p, x, junk) ==
    LET i0f == fast_floor(x)
        x0 == x - i0f
        i0 == LatticeIndex(i0f)
    IN  [kind |-> "noise1d", origin |-> <<i0f>>, rel |-> <<x0>>, lattice |-> <<i0>>,
         corners |-> <<<<0>>, <<1>>>>,
         hashes |-> <<hash1d(p, i0, junk), hash1d(p, i0 + 1, junk)>>,
         indices |-> hash1dIndices(p, i0, junk) \cup hash1dIndices(p, i0 + 1, junk),
         len |-> Len(p)]

\* pub fn noise2d: what it computes up to the gradient indices
noise2d(p, x, y, junk) ==
    LET skew == Skew2d(x + y)
        isf == fast_floor(x + skew)
        jsf == fast_floor(y + skew)
        unskew == Unskew2d(isf + jsf)
        x0 == x - isf + unskew
        y0 == y - jsf + unskew
        m == MiddleCorner2d(x0, y0)
        is == LatticeIndex(isf)
        js == LatticeIndex(jsf)
    IN  [kind |-> "noise2d", origin |-> <<isf, jsf>>, rel |-> <<x0, y0>>,
         lattice |-> <<is, js>>,
         corners |-> <<<<0, 0>>, m, <<1, 1>>>>,
         hashes |-> <<hash2d(p, is, js, junk), hash2d(p, is + m[1], js + m[2], junk),
                      hash2d(p, is + 1, js + 1, junk)>>,
         indices |-> hash2dIndices(p, is, js, junk)
                     \cup hash2dIndices(p, is + m[1], js + m[2], junk)
                     \cup hash2dIndices(p, is + 1, js + 1, junk),
         len |-> Len(p)]

\* pub fn noise3d: what it computes up to the gradient indices; an idx outside
\* the lookup table panics
noise3d(p, x, y, z, junk) ==
    LET skew == Skew3d(x + y + z)
        isf == fast_floor(x + skew)
        jsf == fast_floor(y + skew)
        ksf == fast_floor(z + skew)
        unskew == Unskew3d(isf + jsf + ksf)
        x0 == x - isf + unskew
        y0 == y - jsf + unskew
        z0 == z - ksf + unskew
        idx == SimplexIdx3d(x0, y0, z0)
        is == LatticeIndex(isf)
        js == LatticeIndex(jsf)
        ks == LatticeIndex(ksf)
    IN  IF idx \notin DOMAIN SIMPLEX_TRAVERSAL_LUT_3D
        THEN [kind |-> "noise3d", origin |-> <<isf, jsf, ksf>>, rel |-> <<x0, y0, z0>>,
              lattice |-> <<is, js, ks>>, idx |-> idx, panicked |-> TRUE,
              corners |-> <<>>, hashes |-> <<>>, indices |-> {}, len |-> Len(p)]
        ELSE
        LET c == SIMPLEX_TRAVERSAL_LUT_3D[idx]
        IN  [kind |-> "noise3d", origin |-> <<isf, jsf, ksf>>, rel |-> <<x0, y0, z0>>,
             lattice |-> <<is, js, ks>>, idx |-> idx, panicked |-> FALSE,
             corners |-> <<<<0, 0, 0>>, <<c[1], c[2], c[3]>>, <<c[4], c[5], c[6]>>,
                           <<1, 1, 1>>>>,
             hashes |-> <<hash3d(p, is, js, ks, junk),
                          hash3d(p, is + c[1], js + c[2], ks + c[3], junk),
                          hash3d(p, is + c[4], js + c[5], ks + c[6], junk),
                          hash3d(p, is + 1, js + 1, ks + 1, junk)>>,
             indices |-> hash3dIndices(p, is, js, ks, junk)
                         \cup hash3dIndices(p, is + c[1], js + c[2], ks + c[3], junk)
                         \cup hash3dIndices(p, is + c[4], js + c[5], ks + c[6], junk)
                         \cup hash3dIndices(p, is + 1, js + 1, ks + 1, junk),
             len |-> Len(p)]

\* the finite f64 inputs tried: every grid point from below -2^63 - 1 to above
\* usize::MAX + 1 (1-D), and a selection of them (2-D, 3-D)
Lim == (USIZE_MAX + 2) * Den
Coords == (-Lim) .. Lim
FewCoords ==
    {-Lim, I64_MIN * Den - 1, -Den - 1, -1, 0, 1, Den, Den + 1,
     PERMUTATION_TABLE_SIZE * Den - 1, (I64_MAX + 1) * Den + 1, Lim}

\* the extended tables tried: those the builder makes, and the constant ones
\* (all entries 0 up to all entries size-1)
Tables ==
    {build_permutation_table(s, PERMUTATION_TABLE_SIZE, TRUE) : s \in Seeds}
    \cup {[n \in 1 .. 2 * PERMUTATION_TABLE_SIZE |-> v] : v \in 0 .. (PERMUTATION_TABLE_SIZE - 1)}

\* what a read past the end of the table may return
Junk == {0, 2 * PERMUTATION_TABLE_SIZE}

InitNoiseIdle == nz = [kind |-> "none"]

CacheIdle == UNCHANGED <<seed, table, sync, pc, arg, left, ncalls, first, epoch>>

\* an evaluator is entered when none is running
FastFloor(x) ==
    /\ nz.kind = "none"
    /\ nz' = [kind |-> "fast_floor", x |-> x, out |-> fast_floor(x)]
    /\ CacheIdle

Noise1d(p, x, junk) ==
    /\ nz.kind = "none"
    /\ nz' = noise1d(p, x, junk)
    /\ CacheIdle

Noise2d(p, x, y, junk) ==
    /\ nz.kind = "none"
    /\ nz' = noise2d(p, x, y, junk)
    /\ CacheIdle

Noise3d(p, x, y, z, junk) ==
    /\ nz.kind = "none"
    /\ nz' = noise3d(p, x, y, z, junk)
    /\ CacheIdle

\* the evaluator returns
NoiseReturn ==
    /\ nz.kind # "none"
    /\ nz' = [kind |-> "none"]
    /\ CacheIdle

NextNoise ==
    \/ NoiseReturn
    \/ \E x \in Coords : FastFloor(x)
    \/ \E p \in Tables, x \in Coords, junk \in Junk : Noise1d(p, x, junk)
    \/ \E p \in Tables, x, y \in FewCoords, junk \in Junk : Noise2d(p, x, y, junk)
    \/ \E p \in Tables, x, y, z \in FewCoords, junk \in Junk : Noise3d(p, x, y, z, junk)

Init == InitCache /\ InitNoiseIdle

Next == \E t \in Threads : Step(t)

Spec == Init /\ [][Next]_vars

\* one thread only
NextSeq == Step(1)

SpecSeq == Init /\ [][NextSeq]_vars

\* the threads that are inside a call all ask for the same seed: a call may
\* start with any seed when no call is in progress, and otherwise only with
\* the seed of the calls in progress
NextSame ==
    \E t \in Threads :
        \/ \E s \in Seeds, d \in Dims : CallSameSeed(t, s, d)
        \/ Work(t)

SpecSame == Init /\ [][NextSame]_vars

SpecNoise == Init /\ [][NextNoise]_vars

(***************************************************************************)
(* Properties of the cache.                                                *)
(***************************************************************************)

\* a thread is inside the call_once closure
InClosure(t) == pc[t] \in {"write_seed", "build", "write_table", "complete"}

\* the table field holds the built, allocated table of seed s
HoldsTableOf(s) ==
    table = Some(Vec(build_permutation_table(s, PERMUTATION_TABLE_SIZE, TRUE)))

\* C1: in a single-threaded sequence of calls with arbitrary seeds, every call
\* returns the table build_permutation_table(seed, SIZE, true) of its own seed
C1_SequentialCallReturnsOwnTable ==
    \A t \in Threads : pc[t] = "lookup" => HoldsTableOf(arg[t])

\* C1 witness: the third call asks again for the seed of the first call while
\* the seed of the call in between is cached, and has returned
C1_Witness ==
    /\ pc[1] = "lookup"
    /\ ncalls = 3
    /\ first = Some(arg[1])
    /\ epoch.start # None
    /\ epoch.start # Some(arg[1])

\* C2: under every interleaving no call panics and every table lookup made for
\* a call with seed s reads the table built for s
C2_NoPanicNoMismatchedLookup ==
    \A t \in Threads :
        /\ pc[t] # "panicked"
        /\ pc[t] = "lookup" => ReadsOwnTable(table, arg[t])

\* C3: when the threads call concurrently with the same new seed, the build
\* runs exactly once for that seed transition: never a second time
C3_ExactlyOneBuildPerTransition ==
    (epoch.seeds # {} /\ epoch.start \notin {Some(s) : s \in epoch.seeds})
        => epoch.builds <= 1

\* C3 amended: for concurrent calls with the same new seed, the build has run
\* at least once when any of them holds the table, it runs at most once per
\* guard reset (plus the one build of the never-used guard), and so exactly
\* once when nothing was cached
C3_BuildsBoundedByResets ==
    (epoch.seeds # {} /\ epoch.start \notin {Some(s) : s \in epoch.seeds})
        => /\ (\E t \in Threads : pc[t] = "lookup") => epoch.builds >= 1
           /\ epoch.builds <= epoch.resets + (IF epoch.start = None THEN 1 ELSE 0)
           /\ epoch.start = None => epoch.resets = 0

\* C3 witness: two threads asked for the same seed while another seed was
\* cached, both reset the guard and both ran a build
C3_Witness ==
    /\ epoch.start # None
    /\ epoch.start \notin {Some(s) : s \in epoch.seeds}
    /\ epoch.resets = 2
    /\ epoch.builds = 2
    /\ \E t \in Threads : pc[t] = "lookup"

\* C4: a table handed out is fully built and is never overwritten, replaced or
\* dropped while a reader is still indexing it
C4_TableStableWhileRead ==
    [][\A t \in Threads :
          pc[t] = "lookup" => (table # None /\ table[1].live /\ table' = table)]_vars

\* C10: whenever no build closure is running, the cached seed and the cached
\* table correspond (or nothing is cached yet)
C10_CacheEntryConsistent ==
    (\A t \in Threads : ~InClosure(t))
        => \/ seed = None /\ table = None
           \/ seed # None /\ HoldsTableOf(seed[1])

(***************************************************************************)
(* Properties of the noise arithmetic.                                     *)
(***************************************************************************)

IsNoise == nz.kind \in {"noise1d", "noise2d", "noise3d"}

\* the greatest multiple of 1 not above the f64 v
Floor(v) == (v \div Den) * Den

\* C5: with an extended table whose entries lie in [0, SIZE), every index the
\* hashes use, nested sums included, is below 2 * SIZE for every lattice origin
C5_HashIndicesInBounds ==
    IsNoise => \A i \in nz.indices : 0 <= i /\ i < 2 * PERMUTATION_TABLE_SIZE

\* C5 witness: a 3-D evaluation with a negative lattice origin on one axis
\* whose far corner reaches the last entry of the extended table
C5_Witness ==
    /\ nz.kind = "noise3d"
    /\ \E d \in 1 .. 3 : nz.origin[d] < 0
    /\ (2 * PERMUTATION_TABLE_SIZE - 1) \in nz.indices

\* C6: in noise2d the first corner is (0,0), the last is (1,1), and the middle
\* one is (0,1) exactly when x0 < y0 and (1,0) otherwise, ties included
C6_MiddleCornerByStrictLess ==
    nz.kind = "noise2d" =>
        /\ nz.corners[1] = <<0, 0>>
        /\ nz.corners[3] = <<1, 1>>
        /\ nz.rel[1] < nz.rel[2] => nz.corners[2] = <<0, 1>>
        /\ nz.rel[1] >= nz.rel[2] => nz.corners[2] = <<1, 0>>

\* C6 witness: a tie x0 = y0 inside a cell away from the lattice origin,
\* taking (1,0)
C6_Witness ==
    /\ nz.kind = "noise2d"
    /\ nz.rel[1] = nz.rel[2]
    /\ nz.origin[1] > 0
    /\ nz.rel[1] >= 0
    /\ nz.rel[1] < Den
    /\ nz.corners[2] = <<1, 0>>

C8_FastFloorIsFloor ==
    nz.kind = "fast_floor" => nz.out = Floor(nz.x)

\* C8 amended: fast_floor(x) is the mathematical floor of x for every x with
\* -2^63 <= x < 2^63: truncation minus 1 for negative non-integers, the
\* truncation itself otherwise
C8_FastFloorIsFloorInI64Range ==
    (nz.kind = "fast_floor" /\ I64_MIN * Den <= nz.x /\ nz.x < (I64_MAX + 1) * Den) =>
        /\ nz.out = Floor(nz.x)
        /\ nz.out = (IF nz.x < 0 /\ nz.x % Den # 0 THEN Trunc(nz.x) - 1 ELSE Trunc(nz.x)) * Den

\* C8 witness: a negative non-integer, floored to its truncation minus 1
C8_Witness ==
    /\ nz.kind = "fast_floor"
    /\ nz.x < -Den
    /\ nz.x % Den # 0
    /\ nz.out = (Trunc(nz.x) - 1) * Den

\* C9: the lattice index passed to the hash for a floored coordinate c is the
\* non-negative residue c mod SIZE, for negative c too
C9_LatticeIndexIsResidue ==
    IsNoise =>
        \A d \in 1 .. Len(nz.origin) :
            nz.lattice[d] = (nz.origin[d] \div Den) % PERMUTATION_TABLE_SIZE

====
